---- MODULE Spec2Model ----
(***************************************************************************)
(* Model of the TypingEngine class (typing-test repository): the session   *)
(* state record, the interval timer it owns, the two subscriber registries *)
(* and the operations createNewGame / start / stop / reset / tick /        *)
(* handleKey / getResult.  Positions are 0-based as in the source; TLA+    *)
(* sequences are 1-based, so slot (w, l) is data[w + 1][l + 1].            *)
(***************************************************************************)
EXTENDS Integers, Sequences, FiniteSets, TLC

\* ---------------------------------------------------------------- bounds
\* most subscriptions (state-change and game-over together) held at once
MaxSubs == 2
\* largest value of the seconds counter explored when no time limit ends the session
MaxCounter == 2
\* largest time limit handed to createNewGame / the constructor
MaxTimeLimit == 2
\* longest text explored where the generator's text is left free
MaxTextLen == 4
\* most elapsed seconds explored where getResult is applied to a free state
MaxElapsed == 8

\* ---------------------------------------------------------------- inputs
\* texts the generator may return: space-delimited words
Texts == { <<"a", " ", "b">>, <<"a", "b">> }

\* timeLimit?: number -- 0 stands for undefined (both are falsy in tick's test)
TimeLimits == {0, MaxTimeLimit}

\* logical keys delivered to handleKey
PrintableKeys == {"a", "b"}
Keys == {"Escape", "Backspace", " "} \cup PrintableKeys

\* callback identities; cbThrows raises when invoked
Callbacks == {"cbOk", "cbThrows"}
Throws(cb) == cb = "cbThrows"

\* ---------------------------------------------------------------- state
VARIABLES
  state,                    \* IGameState
  intervalId,               \* handle held by the engine, 0 = null
  timers,                   \* interval handles the host still has scheduled
  onStateChangeCallbacks,   \* registry, in subscription order
  onGameOverCallbacks,      \* registry, in subscription order
  call,                     \* the operation that produced this state and what it did
  gameOvers,                \* game-over notification rounds since the session began
  game                      \* useTyping hook: its IGame state (useState)

vars == <<state, intervalId, timers, onStateChangeCallbacks, onGameOverCallbacks,
          call, gameOvers, game>>

Max(a, b) == IF a >= b THEN a ELSE b
Min(a, b) == IF a <= b THEN a ELSE b

\* ---------------------------------------------------------------- text / grid
\* String.prototype.split(" "): the pieces between separators, empty pieces kept
RECURSIVE Split(_)
Split(text) ==
  IF \A i \in 1..Len(text) : text[i] # " "
    THEN <<text>>
    ELSE LET k == CHOOSE i \in 1..Len(text) :
                    text[i] = " " /\ \A j \in 1..(i - 1) : text[j] # " "
         IN <<SubSeq(text, 1, k - 1)>> \o Split(SubSeq(text, k + 1, Len(text)))

\* generateText(size): an opaque provider of space-delimited text
generateText == Texts

\* createTextdata() that decides the placeholder by the word's own length
createTextdata_wordLength(text) ==
  LET words == Split(text)
  IN [wordIndex \in 1..Len(words) |->
        LET letters == [i \in 1..Len(words[wordIndex]) |->
                          [letter |-> words[wordIndex][i], typed |-> FALSE,
                           status |-> "undefined"]]
        IN IF wordIndex - 1 # Len(words[wordIndex]) - 1
             THEN Append(letters, [letter |-> "", typed |-> FALSE, status |-> "undefined"])
             ELSE letters]

createTextdata(text) ==
  LET words == Split(text)
  IN [wordIndex \in 1..Len(words) |->
        LET letters == [i \in 1..Len(words[wordIndex]) |->
                          [letter |-> words[wordIndex][i], typed |-> FALSE,
                           status |-> "undefined"]]
        IN IF wordIndex # Len(words)
             THEN Append(letters, [letter |-> "", typed |-> FALSE, status |-> "undefined"])
             ELSE letters]

\* useTyping: the state the hook starts from (timeLimit absent)
initialState ==
  [text |-> <<>>, counter |-> 0, data |-> <<>>, timeLimit |-> 0,
   isOver |-> FALSE, isRunning |-> FALSE,
   currentPos |-> [word |-> 0, letter |-> 0]]

getInitialState ==
  [text |-> <<>>, data |-> <<>>, timeLimit |-> 0, counter |-> 0,
   isRunning |-> FALSE, isOver |-> FALSE,
   currentPos |-> [word |-> 0, letter |-> 0]]

\* ---------------------------------------------------------------- result
\* Math.round of the non-negative rational n / d
Round(n, d) == (2 * n + d) \div (2 * d)

RECURSIVE SumSeq(_)
SumSeq(s) == IF s = <<>> THEN 0 ELSE Head(s) + SumSeq(Tail(s))

\* number of non-placeholder slots of the grid satisfying the status test
CountSlots(data, statuses) ==
  SumSeq([w \in 1..Len(data) |->
            Cardinality({l \in 1..Len(data[w]) :
                           data[w][l].letter # "" /\ data[w][l].status \in statuses})])

\* getResult() that does not skip the placeholder slots
getResult_countPlaceholders(s) ==
  LET CountAll(statuses) ==
        SumSeq([w \in 1..Len(s.data) |->
                  Cardinality({l \in 1..Len(s.data[w]) : s.data[w][l].status \in statuses})])
      correct == CountAll({"correct"})
      incorrect == CountAll({"incorrect"})
      totalChars == CountAll({"correct", "incorrect", "undefined"})
      elapsedSeconds == Max(1, s.counter)
  IN [correct |-> correct,
      incorrect |-> incorrect,
      total |-> IF totalChars > 0 THEN totalChars ELSE Len(s.text),
      wpm |-> Round(12 * correct, elapsedSeconds),
      accuracy |-> IF correct + incorrect = 0 THEN 0
                   ELSE Round(correct * 100, correct + incorrect)]

\* getResult() that computes raw WPM, from every typed character
getResult_rawWpm(s) ==
  LET correct == CountSlots(s.data, {"correct"})
      incorrect == CountSlots(s.data, {"incorrect"})
      totalChars == CountSlots(s.data, {"correct", "incorrect", "undefined"})
      elapsedSeconds == Max(1, s.counter)
  IN [correct |-> correct,
      incorrect |-> incorrect,
      total |-> IF totalChars > 0 THEN totalChars ELSE Len(s.text),
      wpm |-> Round(12 * (correct + incorrect), elapsedSeconds),
      accuracy |-> IF correct + incorrect = 0 THEN 0
                   ELSE Round(correct * 100, correct + incorrect)]

getResult(s) ==
  LET correct == CountSlots(s.data, {"correct"})
      incorrect == CountSlots(s.data, {"incorrect"})
      totalChars == CountSlots(s.data, {"correct", "incorrect", "undefined"})
      elapsedSeconds == Max(1, s.counter)
  IN [correct |-> correct,
      incorrect |-> incorrect,
      total |-> IF totalChars > 0 THEN totalChars ELSE Len(s.text),
      \* (correct / 5) / (elapsedSeconds / 60) = 12 * correct / elapsedSeconds
      wpm |-> Round(12 * correct, elapsedSeconds),
      accuracy |-> IF correct + incorrect = 0 THEN 0
                   ELSE Round(correct * 100, correct + incorrect)]

\* ---------------------------------------------------------------- engine
\* The operations below transform an engine record: the session state, the
\* timer handle and the host's scheduled intervals, together with what the
\* running operation has done so far (emitted snapshots, callbacks invoked,
\* whether an exception is leaving the operation).
Engine ==
  [state |-> state, intervalId |-> intervalId, timers |-> timers,
   emits |-> <<>>, stateCalls |-> <<>>, overCalls |-> <<>>, threw |-> FALSE,
   gameOvers |-> gameOvers]

\* invoke callbacks in registry order; a throw that is not caught ends the loop
RECURSIVE Invoke(_, _)
Invoke(cbs, caught) ==
  IF cbs = <<>> THEN [called |-> <<>>, threw |-> FALSE]
  ELSE IF Throws(Head(cbs)) /\ ~caught
    THEN [called |-> <<Head(cbs)>>, threw |-> TRUE]
    ELSE LET rest == Invoke(Tail(cbs), caught)
         IN [called |-> <<Head(cbs)>> \o rest.called, threw |-> rest.threw]

\* for (const cb of onStateChangeCallbacks) try { cb(state) } catch { log }
emitState(e) ==
  [e EXCEPT !.emits = Append(@, [isRunning |-> e.state.isRunning,
                                 isOver |-> e.state.isOver]),
            !.stateCalls = @ \o Invoke(onStateChangeCallbacks, TRUE).called]

\* window.setInterval returns a handle that is not in use
NewHandle(active) == CHOOSE h \in 1..(Cardinality(active) + 1) : h \notin active

\* stop() that forgets clearInterval
stop_noClear(e) == emitState([e EXCEPT !.state.isRunning = FALSE])

\* stop() that also clears isOver
stop_clearOver(e) ==
  emitState([e EXCEPT !.state.isRunning = FALSE,
                      !.state.isOver = FALSE,
                      !.timers = IF e.intervalId # 0 THEN @ \ {e.intervalId} ELSE @,
                      !.intervalId = 0])

stop(e) ==
  emitState([e EXCEPT !.state.isRunning = FALSE,
                      !.timers = IF e.intervalId # 0 THEN @ \ {e.intervalId} ELSE @,
                      !.intervalId = 0])

endGame(e) ==
  LET e1 == stop(e)
      e2 == [e1 EXCEPT !.state.isOver = TRUE, !.state.isRunning = FALSE]
      e3 == emitState(e2)
      r == Invoke(onGameOverCallbacks, FALSE)
  IN [e3 EXCEPT !.overCalls = @ \o r.called, !.threw = r.threw,
                !.gameOvers = @ + 1]

\* createNewGame() that replaces the state without stopping a running session
createNewGame_noStop(e, text, timeLimit) ==
  emitState([e EXCEPT !.state = [getInitialState EXCEPT !.text = text,
                                                        !.data = createTextdata(text),
                                                        !.timeLimit = timeLimit],
                      !.gameOvers = 0])

\* createNewGame() that refuses while a session is running
createNewGame_refuse(e, text, timeLimit) ==
  IF e.state.isRunning THEN e ELSE createNewGame_noStop(e, text, timeLimit)

createNewGame(e, text, timeLimit) ==
  LET data == createTextdata(text)
      e1 == IF e.state.isRunning THEN stop(e) ELSE e
  IN emitState([e1 EXCEPT !.state = [getInitialState EXCEPT !.text = text,
                                                            !.data = data,
                                                            !.timeLimit = timeLimit],
                          !.gameOvers = 0])

\* start() that leaves isOver as it was
start_keepOver(e) ==
  IF e.state.isRunning THEN e
  ELSE LET e1 == emitState([e EXCEPT !.state.isRunning = TRUE,
                                     !.state.counter = 0,
                                     !.gameOvers = 0])
           h == NewHandle(e1.timers)
       IN [e1 EXCEPT !.intervalId = h, !.timers = @ \cup {h}]

\* start() without the already-running guard
start_noGuard(e) ==
  LET e1 == emitState([e EXCEPT !.state.isRunning = TRUE,
                                !.state.isOver = FALSE,
                                !.state.counter = 0,
                                !.gameOvers = 0])
      h == NewHandle(e1.timers)
  IN [e1 EXCEPT !.intervalId = h, !.timers = @ \cup {h}]

start(e) ==
  IF e.state.isRunning THEN e
  ELSE LET e1 == emitState([e EXCEPT !.state.isRunning = TRUE,
                                     !.state.isOver = FALSE,
                                     !.state.counter = 0,
                                     !.gameOvers = 0])
           h == NewHandle(e1.timers)
       IN [e1 EXCEPT !.intervalId = h, !.timers = @ \cup {h}]

reset(e) ==
  emitState([e EXCEPT !.timers = IF e.intervalId # 0 THEN @ \ {e.intervalId} ELSE @,
                      !.intervalId = 0,
                      !.state = getInitialState,
                      !.gameOvers = 0])

\* caret on the last word at or past the end of its slot array
AtTerminal(s) ==
  /\ Len(s.data) > 0
  /\ s.currentPos.word = Len(s.data) - 1
  /\ s.currentPos.letter >= Len(s.data[s.currentPos.word + 1])

\* tick() that ends the session only once the counter has passed the limit
tick_lateLimit(e) ==
  LET e1 == [e EXCEPT !.state.counter = @ + 1]
  IN IF e1.state.timeLimit # 0 /\ e1.state.counter > e1.state.timeLimit
       THEN endGame(e1)
     ELSE IF AtTerminal(e1.state) THEN endGame(e1)
     ELSE emitState(e1)

tick(e) ==
  LET e1 == [e EXCEPT !.state.counter = @ + 1]
  IN IF e1.state.timeLimit # 0 /\ e1.state.counter >= e1.state.timeLimit
       THEN endGame(e1)
     ELSE IF AtTerminal(e1.state) THEN endGame(e1)
     ELSE emitState(e1)

\* data[w]?.[l] is a slot
SlotExists(data, w, l) ==
  /\ w >= 0 /\ w < Len(data)
  /\ l >= 0 /\ l < Len(data[w + 1])

\* Backspace branch that clears typed but leaves the status
handleBackspace_keepStatus(e) ==
  LET data == e.state.data
      w == e.state.currentPos.word
      l == e.state.currentPos.letter
  IN IF l = 0 /\ w = 0 THEN e
     ELSE LET wordOffset == IF l = 0 THEN Max(0, w - 1) ELSE w
              letterOffset == IF l = 0 THEN Len(data[wordOffset + 1]) - 1 ELSE l - 1
              cleared == IF SlotExists(data, wordOffset, letterOffset)
                           THEN [data EXCEPT ![wordOffset + 1][letterOffset + 1].typed = FALSE]
                           ELSE data
          IN emitState([e EXCEPT !.state.data = cleared,
                                 !.state.currentPos = [word |-> wordOffset,
                                                       letter |-> letterOffset]])

handleBackspace(e) ==
  LET data == e.state.data
      w == e.state.currentPos.word
      l == e.state.currentPos.letter
  IN IF l = 0 /\ w = 0 THEN e
     ELSE LET wordOffset == IF l = 0 THEN Max(0, w - 1) ELSE w
              letterOffset == IF l = 0 THEN Len(data[wordOffset + 1]) - 1 ELSE l - 1
              cleared == IF SlotExists(data, wordOffset, letterOffset)
                           THEN [data EXCEPT ![wordOffset + 1][letterOffset + 1].typed = FALSE,
                                             ![wordOffset + 1][letterOffset + 1].status = "undefined"]
                           ELSE data
          IN emitState([e EXCEPT !.state.data = cleared,
                                 !.state.currentPos = [word |-> wordOffset,
                                                       letter |-> letterOffset]])

handleSpace(e) ==
  LET data == e.state.data
      w == e.state.currentPos.word
      l == e.state.currentPos.letter
  IN IF l = 0 THEN e
     ELSE emitState([e EXCEPT !.state.currentPos =
                                 [word |-> Min(w + 1, Len(data) - 1), letter |-> 0]])

\* printable branch that never ends the session after the last character
handlePrintable_noEnd(e, key) ==
  LET data == e.state.data
      w == e.state.currentPos.word
      l == e.state.currentPos.letter
      roll == Len(data[w + 1]) = l
      wordOffset == IF roll THEN w + 1 ELSE w
      letterOffset == IF roll THEN 0 ELSE l
  IN IF roll /\ wordOffset >= Len(data) THEN endGame(e)
     ELSE IF ~SlotExists(data, wordOffset, letterOffset) THEN e
     ELSE LET slot == data[wordOffset + 1][letterOffset + 1]
              marked == [data EXCEPT ![wordOffset + 1][letterOffset + 1].typed = TRUE,
                                     ![wordOffset + 1][letterOffset + 1].status =
                                        IF slot.letter = key THEN "correct" ELSE "incorrect"]
          IN emitState([e EXCEPT !.state.data = marked,
                                 !.state.currentPos = [word |-> wordOffset,
                                                       letter |-> letterOffset + 1]])

\* printable branch that restarts the clock on the first character of the text
handlePrintable_restartClock(e, key) ==
  LET data == e.state.data
      w == e.state.currentPos.word
      l == e.state.currentPos.letter
      roll == Len(data[w + 1]) = l
      wordOffset == IF roll THEN w + 1 ELSE w
      letterOffset == IF roll THEN 0 ELSE l
  IN IF roll /\ wordOffset >= Len(data) THEN endGame(e)
     ELSE IF ~SlotExists(data, wordOffset, letterOffset) THEN e
     ELSE LET slot == data[wordOffset + 1][letterOffset + 1]
              marked == [data EXCEPT ![wordOffset + 1][letterOffset + 1].typed = TRUE,
                                     ![wordOffset + 1][letterOffset + 1].status =
                                        IF slot.letter = key THEN "correct" ELSE "incorrect"]
              e1 == emitState([e EXCEPT !.state.data = marked,
                                        !.state.counter = IF w = 0 /\ l = 0 THEN 0 ELSE @,
                                        !.state.currentPos = [word |-> wordOffset,
                                                              letter |-> letterOffset + 1]])
          IN IF wordOffset = Len(data) - 1
                /\ e1.state.currentPos.letter >= Len(data[wordOffset + 1])
               THEN endGame(e1)
               ELSE e1

\* printable branch that stores the pressed key in the slot
handlePrintable_overwriteLetter(e, key) ==
  LET data == e.state.data
      w == e.state.currentPos.word
      l == e.state.currentPos.letter
      roll == Len(data[w + 1]) = l
      wordOffset == IF roll THEN w + 1 ELSE w
      letterOffset == IF roll THEN 0 ELSE l
  IN IF roll /\ wordOffset >= Len(data) THEN endGame(e)
     ELSE IF ~SlotExists(data, wordOffset, letterOffset) THEN e
     ELSE LET slot == data[wordOffset + 1][letterOffset + 1]
              marked == [data EXCEPT ![wordOffset + 1][letterOffset + 1] =
                                        [letter |-> key, typed |-> TRUE,
                                         status |-> IF slot.letter = key
                                                      THEN "correct" ELSE "incorrect"]]
              e1 == emitState([e EXCEPT !.state.data = marked,
                                        !.state.currentPos = [word |-> wordOffset,
                                                              letter |-> letterOffset + 1]])
          IN IF wordOffset = Len(data) - 1
                /\ e1.state.currentPos.letter >= Len(data[wordOffset + 1])
               THEN endGame(e1)
               ELSE e1

handlePrintable(e, key) ==
  LET data == e.state.data
      w == e.state.currentPos.word
      l == e.state.currentPos.letter
      roll == Len(data[w + 1]) = l
      wordOffset == IF roll THEN w + 1 ELSE w
      letterOffset == IF roll THEN 0 ELSE l
  IN IF roll /\ wordOffset >= Len(data) THEN endGame(e)
     ELSE IF ~SlotExists(data, wordOffset, letterOffset) THEN e
     ELSE LET slot == data[wordOffset + 1][letterOffset + 1]
              marked == [data EXCEPT ![wordOffset + 1][letterOffset + 1].typed = TRUE,
                                     ![wordOffset + 1][letterOffset + 1].status =
                                        IF slot.letter = key THEN "correct" ELSE "incorrect"]
              e1 == emitState([e EXCEPT !.state.data = marked,
                                        !.state.currentPos = [word |-> wordOffset,
                                                              letter |-> letterOffset + 1]])
          IN IF wordOffset = Len(data) - 1
                /\ e1.state.currentPos.letter >= Len(data[wordOffset + 1])
               THEN endGame(e1)
               ELSE e1

\* handleKey() without the isOver guard
handleKey_noOverGuard(e, key) ==
  IF Len(e.state.data) = 0 THEN e
  ELSE IF key = "Escape" THEN endGame(e)
  ELSE IF key = "Backspace" THEN handleBackspace(e)
  ELSE IF key = " " THEN handleSpace(e)
  ELSE handlePrintable(e, key)

handleKey(e, key) ==
  IF Len(e.state.data) = 0 THEN e
  ELSE IF e.state.isOver THEN e
  ELSE IF key = "Escape" THEN endGame(e)
  ELSE IF key = "Backspace" THEN handleBackspace(e)
  ELSE IF key = " " THEN handleSpace(e)
  ELSE handlePrintable(e, key)

\* ---------------------------------------------------------------- actions
\* an operation returns: its effect becomes the engine's state
Commit(op, key, limit, e) ==
  /\ state' = e.state
  /\ intervalId' = e.intervalId
  /\ timers' = e.timers
  /\ gameOvers' = e.gameOvers
  /\ call' = [op |-> op, key |-> key, limit |-> limit,
              wasRunning |-> state.isRunning, wasOver |-> state.isOver,
              emits |-> e.emits, stateCalls |-> e.stateCalls,
              overCalls |-> e.overCalls, threw |-> e.threw]
  /\ UNCHANGED <<onStateChangeCallbacks, onGameOverCallbacks, game>>

\* a registry operation: the session is untouched
Registry(op) ==
  /\ call' = [op |-> op, key |-> "", limit |-> 0,
              wasRunning |-> state.isRunning, wasOver |-> state.isOver,
              emits |-> <<>>, stateCalls |-> <<>>, overCalls |-> <<>>, threw |-> FALSE]
  /\ UNCHANGED <<state, intervalId, timers, gameOvers, game>>

Without(cbs, cb) == SelectSeq(cbs, LAMBDA c : c # cb)
InRegistry(cbs, cb) == \E i \in 1..Len(cbs) : cbs[i] = cb

OnStateChange ==
  \E cb \in Callbacks :
    /\ Len(onStateChangeCallbacks) + Len(onGameOverCallbacks) < MaxSubs
    /\ onStateChangeCallbacks' = Append(onStateChangeCallbacks, cb)
    /\ UNCHANGED onGameOverCallbacks
    /\ Registry("onStateChange")

UnsubscribeStateChange ==
  \E cb \in Callbacks :
    /\ InRegistry(onStateChangeCallbacks, cb)
    /\ onStateChangeCallbacks' = Without(onStateChangeCallbacks, cb)
    /\ UNCHANGED onGameOverCallbacks
    /\ Registry("unsubscribeStateChange")

OnGameOver ==
  \E cb \in Callbacks :
    /\ Len(onStateChangeCallbacks) + Len(onGameOverCallbacks) < MaxSubs
    /\ onGameOverCallbacks' = Append(onGameOverCallbacks, cb)
    /\ UNCHANGED onStateChangeCallbacks
    /\ Registry("onGameOver")

UnsubscribeGameOver ==
  \E cb \in Callbacks :
    /\ InRegistry(onGameOverCallbacks, cb)
    /\ onGameOverCallbacks' = Without(onGameOverCallbacks, cb)
    /\ UNCHANGED onStateChangeCallbacks
    /\ Registry("unsubscribeGameOver")

CreateNewGame ==
  \E text \in generateText, timeLimit \in TimeLimits :
    Commit("createNewGame", "", timeLimit, createNewGame(Engine, text, timeLimit))

Start == Commit("start", "", 0, start(Engine))

Stop == Commit("stop", "", 0, stop(Engine))

Reset == Commit("reset", "", 0, reset(Engine))

\* the host fires a scheduled interval
Tick ==
  /\ timers # {}
  /\ state.counter < MaxCounter
  /\ Commit("tick", "", 0, tick(Engine))

HandleKey == \E key \in Keys : Commit("handleKey", key, 0, handleKey(Engine, key))

\* new TypingEngine(opts): an empty session, optionally with a time limit, or
\* a game created at once (autoCreateOnConstruct)
Init ==
  /\ intervalId = 0
  /\ timers = {}
  /\ onStateChangeCallbacks = <<>>
  /\ onGameOverCallbacks = <<>>
  /\ gameOvers = 0
  /\ game = initialState
  /\ call = [op |-> "constructor", key |-> "", limit |-> 0, wasRunning |-> FALSE, wasOver |-> FALSE,
             emits |-> <<>>, stateCalls |-> <<>>, overCalls |-> <<>>, threw |-> FALSE]
  /\ \/ \E timeLimit \in TimeLimits :
          state = [getInitialState EXCEPT !.timeLimit = timeLimit]
     \/ \E text \in generateText, timeLimit \in TimeLimits :
          state = [getInitialState EXCEPT !.text = text,
                                          !.data = createTextdata(text),
                                          !.timeLimit = timeLimit]

Next ==
  \/ CreateNewGame
  \/ Start
  \/ Stop
  \/ Reset
  \/ Tick
  \/ HandleKey
  \/ OnStateChange
  \/ UnsubscribeStateChange
  \/ OnGameOver
  \/ UnsubscribeGameOver

Spec == Init /\ [][Next]_vars

\* ---------------------------------------------------------------- properties
EngineOps == {"createNewGame", "start", "stop", "reset", "tick", "handleKey"}

\* C1: handleKey called while isRunning is false is a no-op for every key:
\* the session state is unchanged and no subscriber is notified.
C1_NotRunningKeyIsNoOp ==
  [][(call'.op = "handleKey" /\ ~state.isRunning)
       => /\ state' = state
          /\ call'.stateCalls = <<>>
          /\ call'.overCalls = <<>>]_vars

\* C2: in every reachable state every placeholder slot (letter = "") has
\* typed = FALSE and no status.
C2_PlaceholdersNeverMarked ==
  \A w \in 1..Len(state.data) : \A l \in 1..Len(state.data[w]) :
    state.data[w][l].letter = ""
      => ~state.data[w][l].typed /\ state.data[w][l].status = "undefined"

\* C3: with a non-empty grid the caret addresses an existing slot or is exactly
\* one past the final slot of the final word.
C3_CaretInGridOrTerminal ==
  Len(state.data) > 0
    => \/ SlotExists(state.data, state.currentPos.word, state.currentPos.letter)
       \/ /\ state.currentPos.word = Len(state.data) - 1
          /\ state.currentPos.letter = Len(state.data[Len(state.data)])

\* C4: game-over subscribers are notified at most once per session, and a
\* session is over exactly when that one notification round has happened; no
\* later tick or key fires a second round.
C4_GameOverOncePerSession ==
  /\ gameOvers <= 1
  /\ state.isOver <=> gameOvers = 1
  /\ call.wasOver /\ call.op \in {"tick", "handleKey"} => call.overCalls = <<>>

\* a key arriving after the session ended, with a game-over subscriber registered
C4_Witness ==
  /\ call.op = "handleKey" /\ call.key = "Escape" /\ call.wasOver
  /\ gameOvers = 1
  /\ onGameOverCallbacks # <<>>

\* C5: at most one interval handle is scheduled, it is the one the engine holds,
\* one is held only while isRunning is true, and the counter is only ever
\* incremented (by tick) in a running session.
C5_NoDanglingTimer ==
  /\ Cardinality(timers) <= 1
  /\ timers = IF intervalId = 0 THEN {} ELSE {intervalId}
  /\ intervalId # 0 => state.isRunning
  /\ call.op = "tick" => call.wasRunning

\* a running session has just been stopped, reset or ended and nothing is scheduled
C5_Witness ==
  /\ call.wasRunning /\ ~state.isRunning
  /\ call.op \in {"stop", "reset", "tick"}
  /\ timers = {} /\ intervalId = 0

\* C6: no state left by a completed operation has isOver and isRunning both true.
C6_NeverOverAndRunning == ~(state.isOver /\ state.isRunning)

\* start() has just been called on a session that was over
C6_Witness == call.op = "start" /\ call.wasOver /\ state.isRunning

\* C7: start() while running changes nothing, schedules no timer, notifies
\* nobody and throws nothing; every tick increments the counter by exactly one.
C7_StartWhileRunningIsNoOp ==
  [][/\ (call'.op = "start" /\ state.isRunning)
          => /\ state' = state
             /\ timers' = timers /\ intervalId' = intervalId
             /\ call'.emits = <<>> /\ ~call'.threw
     /\ call'.op = "tick" => state'.counter = state.counter + 1]_vars

\* start() has just returned from a call made while the session was running
C7_Witness ==
  /\ call.op = "start" /\ call.wasRunning
  /\ state.isRunning /\ timers # {}

\* C8: createNewGame(textSize, timeLimit), from any state, leaves no timer
\* scheduled and a state with a fresh untyped grid built from the new text,
\* caret (0,0), counter 0, isRunning = isOver = FALSE and the given timeLimit.
C8_CreateNewGameFresh ==
  call.op = "createNewGame"
    => /\ timers = {} /\ intervalId = 0
       /\ state.text \in generateText
       /\ state = [getInitialState EXCEPT !.text = state.text,
                                          !.data = createTextdata(state.text),
                                          !.timeLimit = call.limit]

\* createNewGame has just replaced a running session
C8_Witness == call.op = "createNewGame" /\ call.wasRunning /\ ~state.isRunning

\* C9 as stated: createNewGame() while running leaves the session state
\* unchanged and throws nothing.
C9_CreateWhileRunningUnchanged ==
  [][(call'.op = "createNewGame" /\ state.isRunning)
       => state' = state /\ ~call'.threw]_vars

\* C9 amended: createNewGame() while running is not refused: it stops the
\* running session (subscribers see the stopped state, the timer is cancelled),
\* then installs and announces the new idle game; nothing is thrown.
C9_CreateWhileRunningStopsAndReplaces ==
  [][(call'.op = "createNewGame" /\ state.isRunning)
       => /\ ~state'.isRunning /\ state'.counter = 0
          /\ state'.currentPos = [word |-> 0, letter |-> 0]
          /\ timers' = {} /\ intervalId' = 0
          /\ call'.emits = <<[isRunning |-> FALSE, isOver |-> FALSE],
                             [isRunning |-> FALSE, isOver |-> FALSE]>>
          /\ ~call'.threw]_vars

\* a running session with typed input has just been replaced by createNewGame
C9_Witness ==
  /\ call.op = "createNewGame" /\ call.wasRunning
  /\ Len(call.emits) = 2 /\ ~call.threw
  /\ timers = {}

\* C10: a throwing subscriber does not keep the other subscribers of the same
\* notification from being invoked, the engine's transition completes, and the
\* error does not reach the caller.
C10_ObserverErrorsIsolated ==
  call.op \in EngineOps
    => /\ ~call.threw
       /\ Len(call.stateCalls) = Len(call.emits) * Len(onStateChangeCallbacks)
       /\ call.overCalls \in {<<>>, onGameOverCallbacks}
       /\ call.overCalls # <<>>
            => state.isOver /\ ~state.isRunning /\ timers = {}

\* the text, grid and caret of the session are retained by the step
Retained == /\ state'.text = state.text
            /\ state'.data = state.data
            /\ state'.currentPos = state.currentPos

\* C11 as stated: once Over, the session stays Over with text, grid and caret
\* retained under any further start(), stop(), tick or handleKey.
C11_OverStaysOver ==
  [][(state.isOver /\ call'.op \in {"start", "stop", "tick", "handleKey"})
       => state'.isOver /\ Retained]_vars

\* C11 amended: an Over session stays Over, text, grid and caret retained,
\* under stop(), tick and handleKey; start() also retains text, grid and
\* caret but leaves Over: it begins a new running session with counter 0.
C11_OverLeftOnlyByStartResetCreate ==
  [][/\ (state.isOver /\ call'.op \in {"stop", "tick", "handleKey"})
          => state'.isOver /\ Retained
     /\ (state.isOver /\ call'.op = "start")
          => /\ ~state'.isOver /\ state'.isRunning /\ state'.counter = 0
             /\ Retained
     /\ (state.isOver /\ ~state'.isOver)
          => call'.op \in {"start", "reset", "createNewGame"}]_vars

\* a printable key has just arrived at a session that was over, part-way
\* through its text
C11_Witness ==
  /\ call.op = "handleKey" /\ call.key \in PrintableKeys /\ call.wasOver
  /\ state.isOver
  /\ SlotExists(state.data, state.currentPos.word, state.currentPos.letter)

\* C12: with a time limit T >= 1 the counter never exceeds T, a running
\* session has counter < T, and the tick that brings the counter to T ends the
\* session (not running, over, timer cancelled); every tick adds one second
\* and leaves caret and grid, hence the counts of getResult, as they were.
C12_TimeLimitEndsSession ==
  /\ [](state.timeLimit >= 1
          => /\ state.counter <= state.timeLimit
             /\ state.isRunning => state.counter < state.timeLimit)
  /\ [][call'.op = "tick"
          => /\ state'.counter = state.counter + 1
             /\ state'.data = state.data
             /\ state'.currentPos = state.currentPos
             /\ getResult(state').correct = getResult(state).correct
             /\ getResult(state').incorrect = getResult(state).incorrect
             /\ (state.timeLimit >= 1 /\ state'.counter = state.timeLimit)
                  => /\ state'.isOver /\ ~state'.isRunning
                     /\ timers' = {} /\ intervalId' = 0]_vars

\* the T-th tick has just ended a session whose caret is mid-text with one
\* character typed
C12_Witness ==
  /\ call.op = "tick" /\ call.wasRunning
  /\ state.timeLimit >= 2 /\ state.counter = state.timeLimit
  /\ state.isOver /\ ~state.isRunning
  /\ SlotExists(state.data, state.currentPos.word, state.currentPos.letter)
  /\ getResult(state).correct = 1

\* the slots of a grid, as 0-based (word, letter) pairs
Slots(data) ==
  UNION {{<<w, l>> : l \in 0..(Len(data[w + 1]) - 1)} : w \in 0..(Len(data) - 1)}

\* slot p comes before the caret in reading order
BeforeCaret(p, pos) == p[1] < pos.word \/ (p[1] = pos.word /\ p[2] < pos.letter)

\* the session so far is a perfect run: every letter before the caret is typed
\* correctly, no placeholder is marked, nothing at or after the caret is typed
PerfectPrefix(s) ==
  \A p \in Slots(s.data) :
    LET slot == s.data[p[1] + 1][p[2] + 1]
    IN IF BeforeCaret(p, s.currentPos) /\ slot.letter # ""
         THEN slot.typed /\ slot.status = "correct"
         ELSE ~slot.typed /\ slot.status = "undefined"

\* the key a perfect typist presses at the caret: the letter, or Space on a placeholder
ExpectedKey(s) ==
  LET slot == s.data[s.currentPos.word + 1][s.currentPos.letter + 1]
  IN IF slot.letter = "" THEN " " ELSE slot.letter

\* the caret is on the last slot of the last word
OnLastSlot(s) ==
  /\ s.currentPos.word = Len(s.data) - 1
  /\ s.currentPos.letter = Len(s.data[Len(s.data)]) - 1

Letters(data) == {p \in Slots(data) : data[p[1] + 1][p[2] + 1].letter # ""}

\* C13: in a running session typed perfectly so far, the next correct key
\* (the letter at the caret, Space on a placeholder) keeps the run perfect and
\* advances the caret; the session ends exactly when that key is the last
\* letter of the last word, with the timer cancelled and getResult reporting
\* incorrect = 0, correct = total = number of letters, accuracy = 100.
C13_PerfectRunEndsOnLastLetter ==
  [][(/\ call'.op = "handleKey"
      /\ state.isRunning
      /\ SlotExists(state.data, state.currentPos.word, state.currentPos.letter)
      /\ PerfectPrefix(state)
      /\ call'.key = ExpectedKey(state))
       => /\ PerfectPrefix(state')
          /\ state'.currentPos =
               IF call'.key = " "
                 THEN [word |-> state.currentPos.word + 1, letter |-> 0]
                 ELSE [word |-> state.currentPos.word,
                       letter |-> state.currentPos.letter + 1]
          /\ state'.isOver <=> OnLastSlot(state)
          /\ state'.isRunning <=> ~OnLastSlot(state)
          /\ OnLastSlot(state)
               => /\ timers' = {} /\ intervalId' = 0
                  /\ getResult(state') =
                       [getResult(state') EXCEPT
                          !.incorrect = 0,
                          !.correct = Cardinality(Letters(state.data)),
                          !.total = Cardinality(Letters(state.data)),
                          !.accuracy = 100]]_vars

\* the last letter of a two-word text has just been typed, ending a perfect run
C13_Witness ==
  /\ call.op = "handleKey" /\ call.key \in PrintableKeys /\ call.wasRunning
  /\ Len(state.data) = 2
  /\ PerfectPrefix(state)
  /\ state.isOver /\ ~state.isRunning
  /\ getResult(state).accuracy = 100 /\ getResult(state).correct = 2

\* distance of a caret position from the start of the text, in slots
CaretIndex(data, pos) ==
  SumSeq([w \in 1..pos.word |-> Len(data[w])]) + pos.letter

\* C14: a single handleKey call in a running session moves the caret back by at most one slot, and
\* only on Backspace; it moves it forward by at most one slot, except for the
\* Space jump forward to the first letter of the next word.
C14_CaretStepsByOne ==
  [][(call'.op = "handleKey" /\ state.isRunning /\ Len(state.data) > 0)
       => LET from == CaretIndex(state.data, state.currentPos)
              to == CaretIndex(state.data, state'.currentPos)
          IN /\ to >= from - 1
             /\ to < from => call'.key = "Backspace"
             /\ to > from + 1
                  => /\ call'.key = " "
                     /\ state'.currentPos =
                          [word |-> state.currentPos.word + 1, letter |-> 0]]_vars

\* ---------------------------------------------------------------- grid builder
\* createNewGame with the generator's text left free: any string over the
\* alphabet, empty words (leading, doubled, trailing spaces) included
TextAlphabet == {"a", "b", " "}
AnyTexts == UNION {[1..n -> TextAlphabet] : n \in 0..MaxTextLen}

CreateAnyGame ==
  \E text \in AnyTexts, timeLimit \in TimeLimits :
    Commit("createNewGame", "", timeLimit, createNewGame(Engine, text, timeLimit))

SpecGrid == Init /\ [][CreateAnyGame]_vars

\* the text a grid stands for: its letters in order, a space for each placeholder
RECURSIVE GridText(_)
GridText(data) ==
  IF data = <<>> THEN <<>>
  ELSE [i \in 1..Len(Head(data)) |->
          IF Head(data)[i].letter = "" THEN " " ELSE Head(data)[i].letter]
       \o GridText(Tail(data))

\* C15: the grid of a text with k words (k - 1 spaces) has k word-arrays; read
\* in order, with a space for each placeholder, it spells the text; every word
\* but the last ends in its only placeholder, the last word has none; every
\* slot is untyped with no status.
C15_GridShape ==
  (call.op = "createNewGame" \/ state.data # <<>>)
    => LET data == state.data
           k == 1 + Cardinality({i \in 1..Len(state.text) : state.text[i] = " "})
       IN /\ Len(data) = k
          /\ GridText(data) = state.text
          /\ \A w \in 1..k : \A l \in 1..Len(data[w]) :
               /\ data[w][l].letter = "" <=> (w < k /\ l = Len(data[w]))
               /\ ~data[w][l].typed
               /\ data[w][l].status = "undefined"
          /\ \A w \in 1..(k - 1) : Len(data[w]) >= 1

\* a text with words of different lengths has just been laid out
C15_Witness ==
  /\ call.op = "createNewGame"
  /\ state.text = <<"a", "b", " ", "a">> \/ state.text = <<"a", " ", "b", " ">>
  /\ Len(state.data) \in {2, 3}
  /\ Len(state.data[1]) # Len(state.data[2])

\* ---------------------------------------------------------------- result calculator
\* getResult() applied to a free session state: any text over {a, space}, any
\* marking of its slots that typing can leave (a letter untyped, correct or
\* incorrect; a placeholder untyped or incorrect), any elapsed time
ResultTexts == {t \in AnyTexts : \A i \in 1..Len(t) : t[i] # "b"}

Markings(grid) ==
  {mk \in [Slots(grid) -> {"undefined", "correct", "incorrect"}] :
     \A p \in Slots(grid) : grid[p[1] + 1][p[2] + 1].letter = "" => mk[p] # "correct"}

Marked(grid, mk) ==
  [w \in 1..Len(grid) |->
     [l \in 1..Len(grid[w]) |->
        [grid[w][l] EXCEPT !.typed = mk[<<w - 1, l - 1>>] # "undefined",
                           !.status = mk[<<w - 1, l - 1>>]]]]

InitResult ==
  /\ intervalId = 0
  /\ timers = {}
  /\ onStateChangeCallbacks = <<>>
  /\ onGameOverCallbacks = <<>>
  /\ gameOvers = 0
  /\ game = initialState
  /\ call = [op |-> "constructor", key |-> "", limit |-> 0, wasRunning |-> FALSE,
             wasOver |-> FALSE, emits |-> <<>>, stateCalls |-> <<>>,
             overCalls |-> <<>>, threw |-> FALSE]
  /\ \E text \in ResultTexts, counter \in 0..MaxElapsed :
       \E mk \in Markings(createTextdata(text)) :
         state = [getInitialState EXCEPT !.text = text,
                                         !.data = Marked(createTextdata(text), mk),
                                         !.counter = counter]

\* getResult(): returns the metrics, the session is untouched
GetResult ==
  /\ call' = [op |-> "getResult", key |-> "", limit |-> 0,
              wasRunning |-> state.isRunning, wasOver |-> state.isOver,
              emits |-> <<>>, stateCalls |-> <<>>, overCalls |-> <<>>, threw |-> FALSE,
              result |-> getResult(state)]
  /\ UNCHANGED <<state, intervalId, timers, gameOvers, game,
                 onStateChangeCallbacks, onGameOverCallbacks>>

SpecResult == InitResult /\ [][GetResult]_vars

\* the letter slots of the session's grid with the given status
LettersWith(status) ==
  {p \in Letters(state.data) : state.data[p[1] + 1][p[2] + 1].status = status}

\* r is the rational n / d (d > 0) rounded to the nearest integer, halves up
IsRounded(r, n, d) == 2 * r * d <= 2 * n + d /\ 2 * n + d < 2 * (r + 1) * d

\* C16: getResult returns an integer accuracy in 0..100: 0 when nothing is
\* marked, otherwise correct * 100 / (correct + incorrect) rounded to the
\* nearest integer, correct and incorrect counting non-placeholder slots only.
C16_AccuracyBounded ==
  call.op = "getResult"
    => LET r == call.result
           correct == Cardinality(LettersWith("correct"))
           incorrect == Cardinality(LettersWith("incorrect"))
       IN /\ r.correct = correct /\ r.incorrect = incorrect
          /\ r.accuracy \in 0..100
          /\ correct + incorrect = 0 => r.accuracy = 0
          /\ correct + incorrect > 0
               => IsRounded(r.accuracy, correct * 100, correct + incorrect)

\* getResult has just returned 33 percent for one correct and two incorrect
\* letters, next to a placeholder that is marked incorrect
C16_Witness ==
  /\ call.op = "getResult"
  /\ call.result.accuracy = 33
  /\ \E p \in Slots(state.data) \ Letters(state.data) :
       state.data[p[1] + 1][p[2] + 1].status = "incorrect"

\* C17: getResult returns wpm >= 0, equal to (correct / 5) divided by
\* (max(1, counter) / 60) rounded to the nearest integer.
C17_WpmNonNegative ==
  call.op = "getResult"
    => LET r == call.result
           correct == Cardinality(LettersWith("correct"))
           elapsed == IF state.counter < 1 THEN 1 ELSE state.counter
       IN /\ r.wpm >= 0
          /\ IsRounded(r.wpm, correct * 60, 5 * elapsed)

\* getResult has just returned at counter 0, with one correct and some
\* incorrect letters: one correct character in the floor of one second
C17_Witness ==
  /\ call.op = "getResult"
  /\ state.counter = 0
  /\ call.result.wpm = 12 /\ call.result.incorrect > 0

\* C18: whenever isRunning is true the grid is non-empty.
C18_RunningHasText == state.isRunning => Len(state.data) > 0

\* C19: the endGame transition of a running session notifies the state-change
\* subscribers once, with isRunning = FALSE and isOver = TRUE; no snapshot with
\* isRunning = FALSE and isOver = FALSE is emitted.
C19_EndGameEmitsOnce ==
  (/\ call.op \in {"tick", "handleKey"} /\ call.wasRunning /\ state.isOver
   /\ onStateChangeCallbacks # <<>>)
    => LET stopped == {i \in 1..Len(call.emits) : ~call.emits[i].isRunning}
       IN /\ Cardinality(stopped) = 1
          /\ \A i \in stopped : call.emits[i].isOver

\* C20: Backspace in a running session moves the caret exactly one slot left
\* (from letter 0 of word w > 0 to the last slot of word w - 1), leaves that
\* slot untyped with no status and everything else as it was; at (0,0) it
\* changes nothing.  A correct key on an untyped slot then marks it correct,
\* so a mistake that was backspaced and retyped is not counted as incorrect.
C20_BackspaceRetreatsAndClears ==
  [][/\ (call'.op = "handleKey" /\ call'.key = "Backspace" /\ state.isRunning)
          => LET w == state.currentPos.word
                 l == state.currentPos.letter
                 target == IF l > 0 THEN <<w, l - 1>> ELSE <<w - 1, Len(state.data[w]) - 1>>
             IN IF Len(state.data) = 0 \/ (w = 0 /\ l = 0)
                  THEN state' = state /\ call'.emits = <<>>
                  ELSE /\ state'.currentPos = [word |-> target[1], letter |-> target[2]]
                       /\ target \in Slots(state.data)
                       /\ CaretIndex(state.data, state'.currentPos)
                            = CaretIndex(state.data, state.currentPos) - 1
                       /\ Slots(state'.data) = Slots(state.data)
                       /\ \A p \in Slots(state.data) :
                            state'.data[p[1] + 1][p[2] + 1] =
                              IF p = target
                                THEN [letter |-> state.data[p[1] + 1][p[2] + 1].letter,
                                      typed |-> FALSE, status |-> "undefined"]
                                ELSE state.data[p[1] + 1][p[2] + 1]
                       /\ state' = [state EXCEPT !.data = state'.data,
                                                 !.currentPos = state'.currentPos]
     /\ (/\ call'.op = "handleKey" /\ call'.key \in PrintableKeys /\ state.isRunning
         /\ <<state.currentPos.word, state.currentPos.letter>> \in Slots(state.data)
         /\ ~state.data[state.currentPos.word + 1][state.currentPos.letter + 1].typed
         /\ call'.key = state.data[state.currentPos.word + 1][state.currentPos.letter + 1].letter)
          => /\ state'.data[state.currentPos.word + 1][state.currentPos.letter + 1].status
                  = "correct"
             /\ getResult(state').incorrect = getResult(state).incorrect]_vars

\* Backspace has just taken the caret of a running session back onto the last
\* slot of the first word, which it left untyped
C20_Witness ==
  /\ call.op = "handleKey" /\ call.key = "Backspace" /\ call.wasRunning
  /\ call.emits # <<>>
  /\ Len(state.data) = 2
  /\ state.currentPos = [word |-> 0, letter |-> Len(state.data[1]) - 1]
  /\ state.data[1][1].typed
  /\ ~state.data[1][Len(state.data[1])].typed

\* the part of the session a tick and a key may disagree on
Typed(s) == [currentPos |-> s.currentPos, data |-> s.data, counter |-> s.counter]

\* C21: a tick adds exactly one to the counter and leaves caret and grid
\* alone, handleKey leaves the counter alone; so from a running state a tick
\* and a key, in either order, give the same caret, grid and counter whenever
\* no step of either order ends the session.
C21_TickAndKeyCommute ==
  /\ [][/\ call'.op = "tick"
             => /\ state'.counter = state.counter + 1
                /\ state'.currentPos = state.currentPos
                /\ state'.data = state.data
        /\ call'.op = "handleKey" => state'.counter = state.counter]_vars
  /\ [](state.isRunning
          => \A key \in Keys :
               LET keyFirst == handleKey(Engine, key)
                   tickFirst == tick(Engine)
                   keyTick == tick(keyFirst)
                   tickKey == handleKey(tickFirst, key)
               IN (~keyFirst.state.isOver /\ ~tickFirst.state.isOver
                   /\ ~keyTick.state.isOver /\ ~tickKey.state.isOver)
                    => Typed(keyTick.state) = Typed(tickKey.state))

\* a tick has just passed in a running session in which a key was typed
C21_Witness ==
  /\ call.op = "tick" /\ call.wasRunning
  /\ state.isRunning /\ state.counter = 1
  /\ state.currentPos = [word |-> 0, letter |-> 1]
  /\ state.data[1][1].typed

\* the letters of a grid, word by word
Shape(data) == [w \in 1..Len(data) |-> [l \in 1..Len(data[w]) |-> data[w][l].letter]]

\* C22: start, stop, tick and handleKey never change the shape or the letters
\* of the grid, nor the text: the grid keeps the words, slots and letters it
\* was created with.
C22_GridShapeImmutable ==
  /\ [][call'.op \in {"start", "stop", "tick", "handleKey"}
          => /\ Shape(state'.data) = Shape(state.data)
             /\ state'.text = state.text]_vars
  /\ [](state.data # <<>> => Shape(state.data) = Shape(createTextdata(state.text)))

\* a wrong key has just been written on the second letter of a created grid
C22_Witness ==
  /\ call.op = "handleKey" /\ call.key \in PrintableKeys
  /\ Len(state.data) = 1
  /\ state.data[1][1].status = "correct"
  /\ state.data[1][2].status = "incorrect"

\* ---------------------------------------------------------------- useTyping hook
\* The hook keeps one IGame value (game); each handler below yields the value
\* it sets, and the effects that depend on it run after every update.

\* createTextdata of the hook: the placeholder test compares the word's index
\* with the length of the word itself
useTyping_createTextdata(text) ==
  LET words == Split(text)
  IN [wordIndex \in 1..Len(words) |->
        LET word == words[wordIndex]
            letters == [i \in 1..Len(word) |->
                          [letter |-> word[i], typed |-> FALSE, status |-> "undefined"]]
        IN IF wordIndex - 1 # Len(word) - 1
             THEN Append(letters, [letter |-> "", typed |-> FALSE, status |-> "undefined"])
             ELSE letters]

useTyping_createNewGame(g, text, timeLimit) ==
  IF g.isRunning THEN g
  ELSE [initialState EXCEPT !.text = text,
                            !.data = useTyping_createTextdata(text),
                            !.timeLimit = timeLimit]

useTyping_startGame(g) == IF g.isRunning THEN g ELSE [g EXCEPT !.isRunning = TRUE]

useTyping_setTimeLimit(g, timeLimit) == [g EXCEPT !.timeLimit = timeLimit]

\* the end-of-game effect: time limit met, or caret past the last slot of the last word
useTyping_endEffect(g) ==
  IF /\ g.isRunning /\ ~g.isOver
     /\ \/ g.timeLimit # 0 /\ g.counter = g.timeLimit
        \/ /\ Len(g.data) - 1 = g.currentPos.word
           /\ Len(g.data[g.currentPos.word + 1]) = g.currentPos.letter
    THEN [g EXCEPT !.isRunning = FALSE, !.isOver = TRUE]
    ELSE g

\* updateGameData: the slot gets typed/status, the caret goes to the slot (+1)
useTyping_updateGameData(g, w, l, typed, status, increment) ==
  [g EXCEPT !.data[w + 1][l + 1].typed = typed,
            !.data[w + 1][l + 1].status = status,
            !.currentPos = [word |-> w, letter |-> l + (IF increment THEN 1 ELSE 0)]]

\* handleKeyDown: every key other than Backspace and Space is taken as a typed
\* character; a TypeError in the handler (no such word or slot) leaves the game
\* as it was
useTyping_handleKeyDown(g, key) ==
  LET data == g.data
      w == g.currentPos.word
      l == g.currentPos.letter
  IN IF key = "Backspace"
       THEN IF l = 0 /\ w = 0 THEN g
            ELSE LET wordOffset == IF l = 0 THEN Max(0, w - 1) ELSE w
                     letterOffset == IF l = 0 THEN Len(data[wordOffset + 1]) - 1 ELSE l - 1
                 IN IF SlotExists(data, wordOffset, letterOffset)
                      THEN useTyping_updateGameData(g, wordOffset, letterOffset,
                                                    FALSE, "undefined", FALSE)
                      ELSE g
     ELSE IF key = " "
       THEN IF w = Len(data) \/ l = 0 THEN g
            ELSE [g EXCEPT !.currentPos = [word |-> Min(w + 1, Len(data) - 1),
                                           letter |-> 0]]
     ELSE IF w >= Len(data) THEN g
     ELSE LET roll == Len(data[w + 1]) = l
              wordOffset == IF roll THEN w + 1 ELSE w
              letterOffset == IF roll THEN 0 ELSE l
          IN IF ~SlotExists(data, wordOffset, letterOffset) THEN g
             ELSE useTyping_updateGameData(
                    g, wordOffset, letterOffset, TRUE,
                    IF data[wordOffset + 1][letterOffset + 1].letter = key
                      THEN "correct" ELSE "incorrect",
                    TRUE)

\* Math.round((words / counter) * 60) as a JavaScript number
useTyping_wpm(words, counter) ==
  IF counter # 0 THEN [kind |-> "finite", value |-> Round(60 * words, counter)]
  ELSE IF words > 0 THEN [kind |-> "Infinity", value |-> 0]
  ELSE IF words < 0 THEN [kind |-> "-Infinity", value |-> 0]
  ELSE [kind |-> "NaN", value |-> 0]

\* result(game); isReady is never called, so nothing guards an empty grid
useTyping_result(g) ==
  IF g.currentPos.word >= Len(g.data) THEN [threw |-> TRUE]
  ELSE LET w == g.currentPos.word
           words == IF g.currentPos.letter < Len(g.data[w + 1]) - 1 THEN w - 1 ELSE w
           count(status) ==
             SumSeq([i \in 1..Len(g.data) |->
                       Cardinality({l \in 1..Len(g.data[i]) : g.data[i][l].status = status})])
           correct == count("correct")
           incorrect == count("incorrect")
       IN [threw |-> FALSE,
           correct |-> correct,
           incorrect |-> incorrect,
           total |-> Len(g.text),
           wpm |-> useTyping_wpm(words, g.counter),
           accuracy |-> IF correct + incorrect = 0 THEN 0
                        ELSE Round(correct * 100, correct + incorrect)]

\* a handler of the hook has set the game; the effects have run
HookCommit(op, key, limit, g) ==
  /\ game' = useTyping_endEffect(g)
  /\ call' = [op |-> op, key |-> key, limit |-> limit,
              wasRunning |-> game.isRunning, wasOver |-> game.isOver,
              emits |-> <<>>, stateCalls |-> <<>>, overCalls |-> <<>>, threw |-> FALSE]
  /\ UNCHANGED <<state, intervalId, timers, gameOvers,
                 onStateChangeCallbacks, onGameOverCallbacks>>

HookCreateNewGame ==
  \E text \in generateText, timeLimit \in TimeLimits :
    HookCommit("useTyping.createNewGame", "", timeLimit,
               useTyping_createNewGame(game, text, timeLimit))

HookStartGame == HookCommit("useTyping.startGame", "", 0, useTyping_startGame(game))

HookSetTimeLimit ==
  \E timeLimit \in TimeLimits \ {0} :
    HookCommit("useTyping.setTimeLimit", "", timeLimit,
               useTyping_setTimeLimit(game, timeLimit))

\* the interval of the counter effect, alive while running and not over
HookTick ==
  /\ game.isRunning /\ ~game.isOver
  /\ game.counter < MaxCounter
  /\ HookCommit("useTyping.tick", "", 0, [game EXCEPT !.counter = @ + 1])

\* the keydown listener, attached while running and not over
HookKeyDown ==
  /\ game.isRunning /\ ~game.isOver
  /\ \E key \in Keys :
       HookCommit("useTyping.handleKeyDown", key, 0, useTyping_handleKeyDown(game, key))

\* result(game): returns the metrics, the game is untouched
HookResult ==
  /\ call' = [op |-> "useTyping.result", key |-> "", limit |-> 0,
              wasRunning |-> game.isRunning, wasOver |-> game.isOver,
              emits |-> <<>>, stateCalls |-> <<>>, overCalls |-> <<>>, threw |-> FALSE,
              result |-> useTyping_result(game)]
  /\ UNCHANGED <<state, intervalId, timers, gameOvers, game,
                 onStateChangeCallbacks, onGameOverCallbacks>>

NextHook ==
  \/ HookCreateNewGame
  \/ HookStartGame
  \/ HookSetTimeLimit
  \/ HookTick
  \/ HookKeyDown
  \/ HookResult

SpecHook == Init /\ [][NextHook]_vars

\* the hook's createNewGame with the generator's text left free
HookCreateAnyGame ==
  \E text \in AnyTexts, timeLimit \in TimeLimits :
    HookCommit("useTyping.createNewGame", "", timeLimit,
               useTyping_createNewGame(game, text, timeLimit))

SpecHookGrid == Init /\ [][HookCreateAnyGame]_vars

\* C23: the hook's grid for a text of k words (each at least one letter) has
\* k word-arrays; every word but the last ends in its only placeholder and the
\* last word has none.
C23_HookGridShape ==
  (/\ call.op = "useTyping.createNewGame"
   /\ \A i \in 1..Len(Split(game.text)) : Len(Split(game.text)[i]) >= 1)
    => LET data == game.data
           k == 1 + Cardinality({i \in 1..Len(game.text) : game.text[i] = " "})
       IN /\ Len(data) = k
          /\ \A w \in 1..k : \A l \in 1..Len(data[w]) :
               data[w][l].letter = "" <=> (w < k /\ l = Len(data[w]))
          /\ \A w \in 1..(k - 1) : Len(data[w]) >= 1

\* C24: result(game) of a session that is over returns a finite wpm >= 0.
C24_HookWpmFiniteNonNegative ==
  (call.op = "useTyping.result" /\ game.isOver)
    => /\ ~call.result.threw
       /\ call.result.wpm.kind = "finite"
       /\ call.result.wpm.value >= 0

====
